---- MODULE Spec2Model ----
(***************************************************************************)
(* nsqueue::spsc_queue<T, N> (src/include/spsc_queue.h): a fixed-capacity  *)
(* single-producer/single-consumer ring buffer with one cached copy of the *)
(* other side's index per side.  T is int, as in the repository's tests.   *)
(***************************************************************************)
EXTENDS Integers, Sequences, FiniteSets, TLC

\* ---------------------------------------------------------------- bounds
LogN == 2          \* the template argument N is 2^LogN, in two-thread runs 2^0 .. 2^LogN
MaxPush == 6       \* successful enqueues in one single-threaded run
MaxLimit == 3      \* largest limit handed to consume_n
Count == 5         \* the two-thread runs hand the values 0..Count-1 over
MaxSmallN == 48    \* every template argument N in 0..MaxSmallN is instantiated,
MaxLogN == 14      \* and every power of two up to 2^MaxLogN
MaxOpsPush == 5    \* successful enqueues in one run over the whole interface

RECURSIVE Pow2(_)
Pow2(k) == IF k = 0 THEN 1 ELSE 2 * Pow2(k - 1)

\* the template argument N of spsc_queue<T, N>
VARIABLE tN

N == tN
\* the values handed to emplace/push by the single-threaded runs
Vals == {1, 2}
DefaultT == 0

\* ------------------------------------------------------- index arithmetic
\* a & b on non-negative integers
RECURSIVE BitAnd(_, _)
BitAnd(a, b) ==
    IF a = 0 \/ b = 0 THEN 0
    ELSE (IF a % 2 = 1 /\ b % 2 = 1 THEN 1 ELSE 0) + 2 * BitAnd(a \div 2, b \div 2)

mask_ == N - 1

\* -------------------------------------------------- compile-time selection
\* index_t is std::size_t: unsigned arithmetic wraps.  No N of the model
\* reaches 2^SizeBits, so only 0 - 1 wraps.
SizeBits == 30
SizeSub(a, b) == (a - b + Pow2(SizeBits)) % Pow2(SizeBits)

STACK_BYTES == 524288
cacheLineSize == 64

\* static_assert((N & (N - 1)) == 0, "N must be a power of two")
static_assert_N(n) == BitAnd(n, SizeSub(n, 1)) = 0

storage_bytes(n) == 2 * n * cacheLineSize
use_heap(n) == storage_bytes(n) > STACK_BYTES

\* queue_storage<U, SIZE, heap>: the specialisation for heap = true holds a
\* std::array<U, SIZE> member, the one for heap = false a std::unique_ptr<U[]>
\* filled by std::make_unique<U[]>(SIZE)
queue_storage(heap) == IF heap THEN "inline" ELSE "heap"

\* ------------------------------------------------------------- the queue
\* A queue object: items_, reader_ {readIndex_, writeIndexCache_} and
\* writer_ {writeIndex_, readIndexCache_}.
NewQueue ==
    [ items_           |-> [i \in 0 .. N - 1 |-> DefaultT],
      readIndex_       |-> 0,
      writeIndexCache_ |-> 0,
      writeIndex_      |-> 0,
      readIndexCache_  |-> 0 ]

\* Every operation below maps a queue (and its arguments) to the queue after
\* the call, the returned value (ret), the caller's output parameter after
\* the call (item) and the values the callback was invoked with (calls).
Result(q, ret, item, calls) == [q |-> q, ret |-> ret, item |-> item, calls |-> calls]

emplace_nocheck(q, v, item) ==
    LET writeIdx     == q.writeIndex_
        nextWriteIdx == BitAnd(writeIdx + 1, mask_)
    IN  Result([q EXCEPT !.items_[writeIdx] = v, !.writeIndex_ = nextWriteIdx],
               TRUE, item, << >>)

emplace_dirtyfail(q, v, item) ==
    LET writeIdx     == q.writeIndex_
        nextWriteIdx == BitAnd(writeIdx + 1, mask_)
        refresh      == nextWriteIdx = q.readIndexCache_
        cache        == IF refresh THEN q.readIndex_ ELSE q.readIndexCache_
        q1           == [q EXCEPT !.readIndexCache_ = cache, !.items_[writeIdx] = v]
    IN  IF refresh /\ nextWriteIdx = cache
        THEN Result(q1, FALSE, item, << >>)
        ELSE Result([q1 EXCEPT !.writeIndex_ = nextWriteIdx], TRUE, item, << >>)

emplace(q, v, item) ==
    LET writeIdx     == q.writeIndex_
        nextWriteIdx == BitAnd(writeIdx + 1, mask_)
        refresh      == nextWriteIdx = q.readIndexCache_
        cache        == IF refresh THEN q.readIndex_ ELSE q.readIndexCache_
        q1           == [q EXCEPT !.readIndexCache_ = cache]
    IN  IF refresh /\ nextWriteIdx = cache
        THEN Result(q1, FALSE, item, << >>)
        ELSE Result([q1 EXCEPT !.items_[writeIdx] = v, !.writeIndex_ = nextWriteIdx],
                    TRUE, item, << >>)

push(q, v, item) == emplace(q, v, item)

force_emplace_wrongcache(q, v, item) ==
    LET writeIdx     == q.writeIndex_
        nextWriteIdx == BitAnd(writeIdx + 1, mask_)
        spin         == nextWriteIdx = q.readIndexCache_
        cache        == IF spin THEN q.readIndex_ ELSE q.readIndexCache_
        q1           == IF spin THEN [q EXCEPT !.writeIndexCache_ = cache] ELSE q
    IN  IF nextWriteIdx = cache
        THEN Result(q1, FALSE, item, << >>)
        ELSE Result([q1 EXCEPT !.items_[writeIdx] = v, !.writeIndex_ = nextWriteIdx],
                    TRUE, item, << >>)

\* force_emplace: `while (nextWriteIdx == readIndexCache_) readIndexCache_ =
\* readIndex_.load(acquire);`.  With one thread the first load settles it: the
\* loop ends after it, or the queue is full and the call never returns
\* (ret = FALSE).
force_emplace(q, v, item) ==
    LET writeIdx     == q.writeIndex_
        nextWriteIdx == BitAnd(writeIdx + 1, mask_)
        spin         == nextWriteIdx = q.readIndexCache_
        cache        == IF spin THEN q.readIndex_ ELSE q.readIndexCache_
        q1           == [q EXCEPT !.readIndexCache_ = cache]
    IN  IF nextWriteIdx = cache
        THEN Result(q1, FALSE, item, << >>)
        ELSE Result([q1 EXCEPT !.items_[writeIdx] = v, !.writeIndex_ = nextWriteIdx],
                    TRUE, item, << >>)

force_push(q, v, item) == force_emplace(q, v, item)

\* pop(T& item)
pop_wrongslot(q, item) ==
    LET readIdx     == q.readIndex_
        refresh     == readIdx = q.writeIndexCache_
        writeIdx    == IF refresh THEN q.writeIndex_ ELSE q.writeIndexCache_
        q1          == [q EXCEPT !.writeIndexCache_ = writeIdx]
        nextReadIdx == BitAnd(readIdx + 1, mask_)
    IN  IF refresh /\ readIdx = writeIdx
        THEN Result(q1, FALSE, item, << >>)
        ELSE Result([q1 EXCEPT !.readIndex_ = nextReadIdx],
                    TRUE, q.items_[nextReadIdx], << >>)

pop_clobber(q, item) ==
    LET readIdx  == q.readIndex_
        refresh  == readIdx = q.writeIndexCache_
        writeIdx == IF refresh THEN q.writeIndex_ ELSE q.writeIndexCache_
        q1       == [q EXCEPT !.writeIndexCache_ = writeIdx]
    IN  IF refresh /\ readIdx = writeIdx
        THEN Result(q1, FALSE, q.items_[readIdx], << >>)
        ELSE Result([q1 EXCEPT !.readIndex_ = BitAnd(readIdx + 1, mask_)],
                    TRUE, q.items_[readIdx], << >>)

pop(q, item) ==
    LET readIdx  == q.readIndex_
        refresh  == readIdx = q.writeIndexCache_
        writeIdx == IF refresh THEN q.writeIndex_ ELSE q.writeIndexCache_
        q1       == [q EXCEPT !.writeIndexCache_ = writeIdx]
    IN  IF refresh /\ readIdx = writeIdx
        THEN Result(q1, FALSE, item, << >>)
        ELSE Result([q1 EXCEPT !.readIndex_ = BitAnd(readIdx + 1, mask_)],
                    TRUE, q.items_[readIdx], << >>)

\* pop(): the element is dropped, the slot is not read
pop_discard(q, item) ==
    LET readIdx  == q.readIndex_
        refresh  == readIdx = q.writeIndexCache_
        writeIdx == IF refresh THEN q.writeIndex_ ELSE q.writeIndexCache_
        q1       == [q EXCEPT !.writeIndexCache_ = writeIdx]
    IN  IF refresh /\ readIdx = writeIdx
        THEN Result(q1, FALSE, item, << >>)
        ELSE Result([q1 EXCEPT !.readIndex_ = BitAnd(readIdx + 1, mask_)],
                    TRUE, item, << >>)

\* force_pop(T& item): with one thread the first load of the write index
\* settles the loop, or the queue is empty and the call never returns
\* (ret = FALSE)
force_pop(q, item) ==
    LET readIdx  == q.readIndex_
        spin     == readIdx = q.writeIndexCache_
        writeIdx == IF spin THEN q.writeIndex_ ELSE q.writeIndexCache_
        q1       == [q EXCEPT !.writeIndexCache_ = writeIdx]
    IN  IF readIdx = writeIdx
        THEN Result(q1, FALSE, item, << >>)
        ELSE Result([q1 EXCEPT !.readIndex_ = BitAnd(readIdx + 1, mask_)],
                    TRUE, q.items_[readIdx], << >>)

\* force_pop()
force_pop_discard(q, item) ==
    LET readIdx  == q.readIndex_
        spin     == readIdx = q.writeIndexCache_
        writeIdx == IF spin THEN q.writeIndex_ ELSE q.writeIndexCache_
        q1       == [q EXCEPT !.writeIndexCache_ = writeIdx]
    IN  IF readIdx = writeIdx
        THEN Result(q1, FALSE, item, << >>)
        ELSE Result([q1 EXCEPT !.readIndex_ = BitAnd(readIdx + 1, mask_)],
                    TRUE, item, << >>)

consume_one_noadvance(q, item) ==
    LET readIdx  == q.readIndex_
        refresh  == readIdx = q.writeIndexCache_
        writeIdx == IF refresh THEN q.writeIndex_ ELSE q.writeIndexCache_
        q1       == [q EXCEPT !.writeIndexCache_ = writeIdx]
    IN  IF refresh /\ readIdx = writeIdx
        THEN Result(q1, FALSE, item, << >>)
        ELSE Result(q1, TRUE, item, << q.items_[readIdx] >>)

consume_one(q, item) ==
    LET readIdx  == q.readIndex_
        refresh  == readIdx = q.writeIndexCache_
        writeIdx == IF refresh THEN q.writeIndex_ ELSE q.writeIndexCache_
        q1       == [q EXCEPT !.writeIndexCache_ = writeIdx]
    IN  IF refresh /\ readIdx = writeIdx
        THEN Result(q1, FALSE, item, << >>)
        ELSE Result([q1 EXCEPT !.readIndex_ = BitAnd(readIdx + 1, mask_)],
                    TRUE, item, << q.items_[readIdx] >>)

\* while (consume_one(func)) ++n;  ret is n
RECURSIVE consume_all_loop(_, _, _, _)
consume_all_loop(q, item, n, calls) ==
    LET r == consume_one(q, item)
    IN  IF r.ret
        THEN consume_all_loop(r.q, item, n + 1, calls \o r.calls)
        ELSE Result(r.q, n, item, calls \o r.calls)

consume_all_once(q, item) ==
    LET r == consume_one(q, item)
    IN  Result(r.q, IF r.ret THEN 1 ELSE 0, item, r.calls)

consume_all(q, item) == consume_all_loop(q, item, 0, << >>)

\* for (; m < n; ++m) if (!consume_one(func)) break;  ret is m
RECURSIVE consume_n_loop(_, _, _, _, _)
consume_n_loop(q, item, n, m, calls) ==
    IF m < n
    THEN LET r == consume_one(q, item)
         IN  IF r.ret
             THEN consume_n_loop(r.q, item, n, m + 1, calls \o r.calls)
             ELSE Result(r.q, m, item, calls \o r.calls)
    ELSE Result(q, m, item, calls)

consume_n_offbyone(q, item, n) == consume_n_loop(q, item, n + 1, 0, << >>)

consume_n(q, item, n) == consume_n_loop(q, item, n, 0, << >>)

full_nomask(q) ==
    LET writeIdx     == q.writeIndex_
        nextWriteIdx == writeIdx + 1
        readIdx      == q.readIndex_
    IN  nextWriteIdx = readIdx

full(q) ==
    LET writeIdx     == q.writeIndex_
        nextWriteIdx == BitAnd(writeIdx + 1, mask_)
        readIdx      == q.readIndex_
    IN  nextWriteIdx = readIdx

size_nowrap(q) ==
    LET w == q.writeIndex_
        r == q.readIndex_
    IN  IF w >= r THEN w - r ELSE r - w

size(q) ==
    LET w == q.writeIndex_
        r == q.readIndex_
    IN  IF w >= r THEN w - r ELSE (N - r) + w

empty(q) == q.writeIndex_ = q.readIndex_

capacity == mask_

\* front(): `const auto r = reader_.readIdx_.load(acquire); return items_[r].mObj;`
\* reads the member readIdx_ of the queue's reader state.  ret: the call
\* yields a reference; calls: the element referred to.  The queue object
\* declares readIndex_ and writeIndexCache_ there and no readIdx_, so no
\* program that calls front() compiles.
front(q, item) ==
    LET member == "readIdx_"
    IN  IF member \in DOMAIN q
        THEN Result(q, TRUE, item, << q.items_[q[member]] >>)
        ELSE Result(q, FALSE, item, << >>)

reset_keepread(q, item) ==
    Result([q EXCEPT !.readIndexCache_ = 0, !.writeIndexCache_ = 0, !.writeIndex_ = 0],
           TRUE, item, << >>)

reset(q, item) ==
    Result([q EXCEPT !.readIndexCache_ = 0, !.writeIndexCache_ = 0,
                     !.readIndex_ = 0, !.writeIndex_ = 0],
           TRUE, item, << >>)

\* ------------------------------------------------------------------ state
VARIABLES
    inst,      \* the instantiation: "declared", "rejected" or "accepted"
    storage,   \* where items_ keeps the slot array: "none", "inline" or "heap"
    items_, readIndex_, writeIndexCache_, writeIndex_, readIndexCache_,
    item,      \* the caller's output variable handed to pop(T&)
    last,      \* the last call: its name, argument, results and the size before it
    fifo,      \* the elements enqueued and not yet dequeued, oldest first
    nPushed,   \* the number of successful enqueues so far
    pushed,    \* the values of the successful enqueues, in order (recorded runs)
    popped,    \* the values handed back by successful dequeues, in order (recorded runs)
    fresh,     \* a newly constructed queue put through the calls made since reset()
    prod,      \* the producer thread: pc, loop counter i, emplace's locals
    cons,      \* the consumer thread: pc, expected, pop's locals, slot load pending
    done,      \* the producer's completion flag
    pmode,     \* how the producer enqueues: "emplace" (retried) or "force_push"
    cmode,     \* how the consumer dequeues: "pop", "consume_one" (polled) or "force_pop"
    slotbuf,   \* the producer's slot writes not yet visible to the consumer
    failed     \* the consumer saw a value other than the expected one

qvars == << items_, readIndex_, writeIndexCache_, writeIndex_, readIndexCache_ >>
ivars == << tN, inst, storage >>
vars == << tN, inst, storage,
           items_, readIndex_, writeIndexCache_, writeIndex_, readIndexCache_,
           item, last, fifo, nPushed, pushed, popped, fresh,
           prod, cons, done, pmode, cmode, slotbuf, failed >>
tvars == << prod, cons, done, pmode, cmode, slotbuf, failed >>

Q == [ items_           |-> items_,
       readIndex_       |-> readIndex_,
       writeIndexCache_ |-> writeIndexCache_,
       writeIndex_      |-> writeIndex_,
       readIndexCache_  |-> readIndexCache_ ]

NoCall == [ op |-> "none", arg |-> 0, ret |-> FALSE, calls |-> << >>,
            presize |-> 0, fret |-> FALSE, fitem |-> DefaultT, fcalls |-> << >> ]

IdleProducer == [pc |-> "idle", i |-> 0, writeIdx |-> 0, nextWriteIdx |-> 0]
IdleConsumer == [pc |-> "idle", expected |-> 0, readIdx |-> 0, writeIdx |-> 0, late |-> FALSE]

InitQueue ==
    /\ items_ = NewQueue.items_
    /\ readIndex_ = NewQueue.readIndex_
    /\ writeIndexCache_ = NewQueue.writeIndexCache_
    /\ writeIndex_ = NewQueue.writeIndex_
    /\ readIndexCache_ = NewQueue.readIndexCache_
    /\ item = DefaultT
    /\ last = NoCall
    /\ fifo = << >>
    /\ nPushed = 0
    /\ pushed = << >>
    /\ popped = << >>
    /\ fresh = NewQueue

\* spsc_queue<int, n> has been instantiated
InitInstance(n) ==
    /\ tN = n
    /\ inst = "accepted"
    /\ storage = queue_storage(use_heap(n))

\* one thread owns the queue: no producer or consumer thread is started
Init ==
    /\ InitInstance(Pow2(LogN))
    /\ InitQueue
    /\ prod = IdleProducer
    /\ cons = IdleConsumer
    /\ done = FALSE
    /\ pmode = "emplace"
    /\ cmode = "pop"
    /\ slotbuf = << >>
    /\ failed = FALSE

\* One call made by the only thread: r is the call applied to the queue, rf
\* the same call applied to the queue `fresh`.
Call(op, arg, r, rf) ==
    /\ items_' = r.q.items_
    /\ readIndex_' = r.q.readIndex_
    /\ writeIndexCache_' = r.q.writeIndexCache_
    /\ writeIndex_' = r.q.writeIndex_
    /\ readIndexCache_' = r.q.readIndexCache_
    /\ item' = r.item
    /\ fresh' = rf.q
    /\ last' = [ op |-> op, arg |-> arg, ret |-> r.ret, calls |-> r.calls,
                 presize |-> size(Q),
                 fret |-> rf.ret, fitem |-> rf.item, fcalls |-> rf.calls ]
    /\ UNCHANGED << tvars, ivars >>

\* rec: the run records the values enqueued and handed back
EmplaceCall(rec) ==
    \E v \in Vals :
        /\ nPushed < MaxPush
        /\ LET r == emplace(Q, v, item)
           IN  /\ Call("emplace", v, r, emplace(fresh, v, item))
               /\ fifo' = IF r.ret THEN Append(fifo, v) ELSE fifo
               /\ nPushed' = IF r.ret THEN nPushed + 1 ELSE nPushed
               /\ pushed' = IF rec /\ r.ret THEN Append(pushed, v) ELSE pushed
               /\ popped' = popped

PushCall(rec) ==
    \E v \in Vals :
        /\ nPushed < MaxPush
        /\ LET r == push(Q, v, item)
           IN  /\ Call("push", v, r, push(fresh, v, item))
               /\ fifo' = IF r.ret THEN Append(fifo, v) ELSE fifo
               /\ nPushed' = IF r.ret THEN nPushed + 1 ELSE nPushed
               /\ pushed' = IF rec /\ r.ret THEN Append(pushed, v) ELSE pushed
               /\ popped' = popped

PopCall(rec) ==
    LET r == pop(Q, item)
    IN  /\ Call("pop", 0, r, pop(fresh, item))
        /\ fifo' = IF r.ret THEN Tail(fifo) ELSE fifo
        /\ popped' = IF rec /\ r.ret THEN Append(popped, r.item) ELSE popped
        /\ UNCHANGED << nPushed, pushed >>

Emplace == EmplaceCall(FALSE)
Push == PushCall(FALSE)
Pop == PopCall(FALSE)

PopDiscard ==
    LET r == pop_discard(Q, item)
    IN  /\ Call("pop_discard", 0, r, pop_discard(fresh, item))
        /\ fifo' = IF r.ret THEN Tail(fifo) ELSE fifo
        /\ UNCHANGED << nPushed, pushed, popped >>

ConsumeOne ==
    LET r == consume_one(Q, item)
    IN  /\ Call("consume_one", 0, r, consume_one(fresh, item))
        /\ fifo' = IF r.ret THEN Tail(fifo) ELSE fifo
        /\ UNCHANGED << nPushed, pushed, popped >>

ConsumeAll ==
    LET r == consume_all(Q, item)
    IN  /\ Call("consume_all", 0, r, consume_all(fresh, item))
        /\ fifo' = SubSeq(fifo, r.ret + 1, Len(fifo))
        /\ UNCHANGED << nPushed, pushed, popped >>

ConsumeN ==
    \E n \in 0 .. MaxLimit :
        LET r == consume_n(Q, item, n)
        IN  /\ Call("consume_n", n, r, consume_n(fresh, item, n))
            /\ fifo' = SubSeq(fifo, r.ret + 1, Len(fifo))
            /\ UNCHANGED << nPushed, pushed, popped >>

Front ==
    LET r == front(Q, item)
    IN  /\ Call("front", 0, r, front(fresh, item))
        /\ UNCHANGED << fifo, nPushed, pushed, popped >>

Reset ==
    LET r == reset(Q, item)
    IN  /\ Call("reset", 0, r, Result(NewQueue, TRUE, item, << >>))
        /\ fifo' = << >>
        /\ UNCHANGED << nPushed, pushed, popped >>

\* every single-threaded call
Next == Emplace \/ Push \/ Pop \/ PopDiscard \/ ConsumeOne \/ ConsumeAll \/ ConsumeN
        \/ Front \/ Reset
Spec == Init /\ [][Next]_vars

\* The blocking calls, made by the only thread where they return, and the
\* queries.
ForceEmplace ==
    \E v \in Vals :
        /\ nPushed < MaxOpsPush
        /\ LET r == force_emplace(Q, v, item)
           IN  /\ r.ret
               /\ Call("force_emplace", v, r, force_emplace(fresh, v, item))
               /\ fifo' = Append(fifo, v)
               /\ nPushed' = nPushed + 1
               /\ UNCHANGED << pushed, popped >>

ForcePush ==
    \E v \in Vals :
        /\ nPushed < MaxOpsPush
        /\ LET r == force_push(Q, v, item)
           IN  /\ r.ret
               /\ Call("force_push", v, r, force_push(fresh, v, item))
               /\ fifo' = Append(fifo, v)
               /\ nPushed' = nPushed + 1
               /\ UNCHANGED << pushed, popped >>

ForcePop ==
    LET r == force_pop(Q, item)
    IN  /\ r.ret
        /\ Call("force_pop", 0, r, force_pop(fresh, item))
        /\ fifo' = Tail(fifo)
        /\ UNCHANGED << nPushed, pushed, popped >>

ForcePopDiscard ==
    LET r == force_pop_discard(Q, item)
    IN  /\ r.ret
        /\ Call("force_pop_discard", 0, r, force_pop_discard(fresh, item))
        /\ fifo' = Tail(fifo)
        /\ UNCHANGED << nPushed, pushed, popped >>

\* q.empty(), q.full(), q.size(), q.capacity(): const members made of loads;
\* ret holds the four values
Query ==
    LET values(q) == << empty(q), full(q), size(q), capacity >>
    IN  /\ Call("query", 0, Result(Q, values(Q), item, << >>),
                Result(fresh, values(fresh), item, << >>))
        /\ UNCHANGED << fifo, nPushed, pushed, popped >>

\* every call of the interface
NextOps ==
    \/ nPushed < MaxOpsPush /\ (Emplace \/ Push)
    \/ ForceEmplace \/ ForcePush
    \/ Pop \/ PopDiscard \/ ForcePop \/ ForcePopDiscard
    \/ ConsumeOne \/ ConsumeAll \/ ConsumeN
    \/ Query \/ Front \/ Reset
SpecOps == Init /\ [][NextOps]_vars

\* emplace/push and pop(item) only, the values recorded
FifoEmplace == EmplaceCall(TRUE)
FifoPush == PushCall(TRUE)
FifoPop == PopCall(TRUE)
NextFifo == FifoEmplace \/ FifoPush \/ FifoPop
SpecFifo == Init /\ [][NextFifo]_vars

\* ------------------------------------------------- producer and consumer
\* Two threads on one queue, one step per access to memory the other thread
\* reads or writes.  The producer hands over 0 .. Count-1, by
\* `while (!q.emplace(i)) continue;` or by `q.force_push(i)`, then sets done;
\* the consumer checks each value against `expected`, polling pop(val) or
\* consume_one(callback) until done is set and the queue is empty, or calling
\* force_pop(val) Count times.

\* the memory order each operation stores its own index with
write_index_store(op) == "relaxed"
read_index_store(op) == IF op = "consume_one" THEN "release" ELSE "relaxed"

seqvars == << last, fifo, nPushed, fresh >>

InitThreads ==
    /\ \E k \in 0 .. LogN : InitInstance(Pow2(k))
    /\ InitQueue
    /\ prod = [IdleProducer EXCEPT !.pc = "loop"]
    /\ cons = [IdleConsumer EXCEPT !.pc = "loop"]
    /\ done = FALSE
    /\ pmode \in {"emplace", "force_push"}
    /\ cmode \in {"pop", "consume_one", "force_pop"}
    /\ slotbuf = << >>
    /\ failed = FALSE

P_Load_nocheck ==
    /\ prod.pc = "loop"
    /\ prod.i < Count
    /\ LET writeIdx     == writeIndex_
           nextWriteIdx == BitAnd(writeIdx + 1, mask_)
       IN  prod' = [prod EXCEPT !.writeIdx = writeIdx, !.nextWriteIdx = nextWriteIdx,
                                !.pc = "construct"]
    /\ UNCHANGED << qvars, item, pushed, popped, cons, done, pmode, cmode, slotbuf,
                    failed, seqvars, ivars >>

\* emplace/force_emplace: load writeIndex_, test the cached read index
P_Load ==
    /\ prod.pc = "loop"
    /\ prod.i < Count
    /\ LET writeIdx     == writeIndex_
           nextWriteIdx == BitAnd(writeIdx + 1, mask_)
       IN  prod' = [prod EXCEPT !.writeIdx = writeIdx, !.nextWriteIdx = nextWriteIdx,
                                !.pc = IF nextWriteIdx = readIndexCache_
                                       THEN "refresh" ELSE "construct"]
    /\ UNCHANGED << qvars, item, pushed, popped, cons, done, pmode, cmode, slotbuf,
                    failed, seqvars, ivars >>

P_Refresh_wrongindex ==
    /\ prod.pc = "refresh"
    /\ readIndexCache_' = writeIndex_
    /\ prod' = [prod EXCEPT !.pc = IF prod.nextWriteIdx # writeIndex_ THEN "construct"
                                   ELSE IF pmode = "emplace" THEN "loop" ELSE "refresh"]
    /\ UNCHANGED << items_, readIndex_, writeIndexCache_, writeIndex_, item, pushed,
                    popped, cons, done, pmode, cmode, slotbuf, failed, seqvars, ivars >>

P_Refresh_spin ==
    /\ prod.pc = "refresh"
    /\ readIndexCache_' = readIndex_
    /\ prod' = [prod EXCEPT !.pc = IF prod.nextWriteIdx # readIndex_ THEN "construct"
                                   ELSE "refresh"]
    /\ UNCHANGED << items_, readIndex_, writeIndexCache_, writeIndex_, item, pushed,
                    popped, cons, done, pmode, cmode, slotbuf, failed, seqvars, ivars >>

P_Refresh_noload ==
    /\ prod.pc = "refresh"
    /\ prod' = [prod EXCEPT !.pc = IF prod.nextWriteIdx # readIndexCache_ THEN "construct"
                                   ELSE IF pmode = "emplace" THEN "loop" ELSE "refresh"]
    /\ UNCHANGED << qvars, item, pushed, popped, cons, done, pmode, cmode, slotbuf,
                    failed, seqvars, ivars >>

\* readIndexCache_ = readIndex_.load(acquire); emplace returns false when the
\* queue is still full (the caller calls it again), force_emplace loads again
P_Refresh ==
    /\ prod.pc = "refresh"
    /\ readIndexCache_' = readIndex_
    /\ prod' = [prod EXCEPT !.pc = IF prod.nextWriteIdx # readIndex_ THEN "construct"
                                   ELSE IF pmode = "emplace" THEN "loop" ELSE "refresh"]
    /\ UNCHANGED << items_, readIndex_, writeIndexCache_, writeIndex_, item, pushed,
                    popped, cons, done, pmode, cmode, slotbuf, failed, seqvars, ivars >>

\* new (&items_[writeIdx].mObj) T(args), visible to the consumer at once
P_Construct ==
    /\ prod.pc = "construct"
    /\ \A k \in 1 .. Len(slotbuf) : slotbuf[k].idx # prod.writeIdx
    /\ items_' = [items_ EXCEPT ![prod.writeIdx] = prod.i]
    /\ prod' = [prod EXCEPT !.pc = "publish"]
    /\ UNCHANGED << readIndex_, writeIndexCache_, writeIndex_, readIndexCache_, item,
                    pushed, popped, cons, done, pmode, cmode, slotbuf, failed, seqvars, ivars >>

\* writeIndex_.store(nextWriteIdx, relaxed); a release store would make the
\* slot write visible first
P_Publish ==
    /\ prod.pc = "publish"
    /\ write_index_store(pmode) = "release" => slotbuf = << >>
    /\ writeIndex_' = prod.nextWriteIdx
    /\ pushed' = Append(pushed, prod.i)
    /\ prod' = [prod EXCEPT !.pc = "loop", !.i = prod.i + 1]
    /\ UNCHANGED << items_, readIndex_, writeIndexCache_, readIndexCache_, item,
                    popped, cons, done, pmode, cmode, slotbuf, failed, seqvars, ivars >>

\* done.store(true, release): the producer's earlier writes are visible first
P_Done ==
    /\ prod.pc = "loop"
    /\ prod.i = Count
    /\ slotbuf = << >>
    /\ done' = TRUE
    /\ prod' = [prod EXCEPT !.pc = "done"]
    /\ UNCHANGED << qvars, item, pushed, popped, cons, pmode, cmode, slotbuf,
                    failed, seqvars, ivars >>

\* while (!done.load(acquire) || ...)
C_WhileDone ==
    /\ cons.pc = "loop"
    /\ cmode # "force_pop"
    /\ cons' = [cons EXCEPT !.pc = IF done THEN "empty" ELSE "load"]
    /\ UNCHANGED << qvars, item, pushed, popped, prod, done, pmode, cmode, slotbuf,
                    failed, seqvars, ivars >>

\* ... || !q.empty())
C_Empty ==
    /\ cons.pc = "empty"
    /\ cons' = [cons EXCEPT !.pc = IF empty(Q) THEN "end" ELSE "load"]
    /\ UNCHANGED << qvars, item, pushed, popped, prod, done, pmode, cmode, slotbuf,
                    failed, seqvars, ivars >>

\* for (uint64_t i{}; i < N; ++i) force_pop(val)
C_For ==
    /\ cons.pc = "loop"
    /\ cmode = "force_pop"
    /\ cons' = [cons EXCEPT !.pc = IF cons.expected < Count THEN "load" ELSE "end"]
    /\ UNCHANGED << qvars, item, pushed, popped, prod, done, pmode, cmode, slotbuf,
                    failed, seqvars, ivars >>

\* pop/consume_one/force_pop: load readIndex_, test the cached write index
C_Load ==
    /\ cons.pc = "load"
    /\ cons' = [cons EXCEPT !.readIdx = readIndex_, !.writeIdx = writeIndexCache_,
                            !.pc = IF readIndex_ = writeIndexCache_
                                   THEN "refresh" ELSE "move"]
    /\ UNCHANGED << qvars, item, pushed, popped, prod, done, pmode, cmode, slotbuf,
                    failed, seqvars, ivars >>

C_Refresh_noload ==
    /\ cons.pc = "refresh"
    /\ cons' = [cons EXCEPT !.pc = IF cons.readIdx # writeIndexCache_ THEN "move"
                                   ELSE IF cmode # "force_pop" THEN "loop" ELSE "refresh"]
    /\ UNCHANGED << qvars, item, pushed, popped, prod, done, pmode, cmode, slotbuf,
                    failed, seqvars, ivars >>

\* writeIdx = writeIndexCache_ = writeIndex_.load(acquire); pop and consume_one
\* return false when the queue is still empty, force_pop loads again
C_Refresh ==
    /\ cons.pc = "refresh"
    /\ writeIndexCache_' = writeIndex_
    /\ cons' = [cons EXCEPT !.writeIdx = writeIndex_,
                            !.pc = IF cons.readIdx # writeIndex_ THEN "move"
                                   ELSE IF cmode # "force_pop" THEN "loop" ELSE "refresh"]
    /\ UNCHANGED << items_, readIndex_, writeIndex_, readIndexCache_, item, pushed,
                    popped, prod, done, pmode, cmode, slotbuf, failed, seqvars, ivars >>

\* item = std::move(items_[readIdx].mObj), or the argument of consume_one's
\* callback
C_Move ==
    /\ cons.pc = "move"
    /\ item' = items_[cons.readIdx]
    /\ cons' = [cons EXCEPT !.pc = IF cmode = "consume_one" THEN "callback" ELSE "advance"]
    /\ UNCHANGED << qvars, pushed, popped, prod, done, pmode, cmode, slotbuf,
                    failed, seqvars, ivars >>

\* consume_one's callback: if (val != expected) FAIL("out of order"); ++expected;
C_Callback ==
    /\ cons.pc = "callback"
    /\ ~cons.late
    /\ IF item # cons.expected
       THEN /\ failed' = TRUE
            /\ cons' = [cons EXCEPT !.pc = "failed"]
            /\ popped' = popped
       ELSE /\ failed' = failed
            /\ cons' = [cons EXCEPT !.pc = "advance", !.expected = cons.expected + 1]
            /\ popped' = Append(popped, item)
    /\ UNCHANGED << qvars, item, pushed, prod, done, pmode, cmode, slotbuf, seqvars, ivars >>

\* readIndex_.store(nextReadIdx, relaxed) in pop and force_pop, release in
\* consume_one: a release store follows the slot load
C_Advance ==
    /\ cons.pc = "advance"
    /\ read_index_store(cmode) = "release" => ~cons.late
    /\ readIndex_' = BitAnd(cons.readIdx + 1, mask_)
    /\ cons' = [cons EXCEPT !.pc = IF cmode = "consume_one" THEN "loop" ELSE "check"]
    /\ UNCHANGED << items_, writeIndexCache_, writeIndex_, readIndexCache_, item,
                    pushed, popped, prod, done, pmode, cmode, slotbuf, failed, seqvars, ivars >>

\* if (val != expected) FAIL("out of order"); ++expected;
C_Check ==
    /\ cons.pc = "check"
    /\ ~cons.late
    /\ IF item # cons.expected
       THEN /\ failed' = TRUE
            /\ cons' = [cons EXCEPT !.pc = "failed"]
            /\ popped' = popped
       ELSE /\ failed' = failed
            /\ cons' = [cons EXCEPT !.pc = "loop", !.expected = cons.expected + 1]
            /\ popped' = Append(popped, item)
    /\ UNCHANGED << qvars, item, pushed, prod, done, pmode, cmode, slotbuf, seqvars, ivars >>

\* The slot is a plain object and both index stores are relaxed, so nothing
\* orders the slot accesses of one thread against its index store as seen by
\* the other thread: the slot write may become visible after the write index
\* (P_ConstructLate, DrainSlot) and the slot read may be performed after the
\* read index is stored (C_MoveLate, C_LateLoad).
P_ConstructLate ==
    /\ prod.pc = "construct"
    /\ slotbuf' = Append(slotbuf, [idx |-> prod.writeIdx, val |-> prod.i])
    /\ prod' = [prod EXCEPT !.pc = "publish"]
    /\ UNCHANGED << qvars, item, pushed, popped, cons, done, pmode, cmode,
                    failed, seqvars, ivars >>

DrainSlot ==
    /\ slotbuf # << >>
    /\ items_' = [items_ EXCEPT ![Head(slotbuf).idx] = Head(slotbuf).val]
    /\ slotbuf' = Tail(slotbuf)
    /\ UNCHANGED << readIndex_, writeIndexCache_, writeIndex_, readIndexCache_, item,
                    pushed, popped, prod, cons, done, pmode, cmode, failed, seqvars, ivars >>

C_MoveLate ==
    /\ cons.pc = "move"
    /\ cons' = [cons EXCEPT !.pc = IF cmode = "consume_one" THEN "callback" ELSE "advance",
                            !.late = TRUE]
    /\ UNCHANGED << qvars, item, pushed, popped, prod, done, pmode, cmode, slotbuf,
                    failed, seqvars, ivars >>

C_LateLoad ==
    /\ cons.late
    /\ item' = items_[cons.readIdx]
    /\ cons' = [cons EXCEPT !.late = FALSE]
    /\ UNCHANGED << qvars, pushed, popped, prod, done, pmode, cmode, slotbuf,
                    failed, seqvars, ivars >>

Producer == P_Load \/ P_Refresh \/ P_Construct \/ P_Publish \/ P_Done
Consumer == C_WhileDone \/ C_Empty \/ C_For \/ C_Load \/ C_Refresh \/ C_Move
            \/ C_Callback \/ C_Advance \/ C_Check

\* the interleavings of the two threads' steps in program order
NextThreads == Producer \/ Consumer
SpecThreads == InitThreads /\ [][NextThreads]_vars

\* both threads keep being scheduled
SpecLive == InitThreads /\ [][NextThreads]_vars /\ WF_vars(Producer) /\ WF_vars(Consumer)

\* the same, with the orders the relaxed index stores leave open
NextRelaxed == Producer \/ Consumer \/ P_ConstructLate \/ DrainSlot \/ C_MoveLate \/ C_LateLoad
SpecRelaxed == InitThreads /\ [][NextRelaxed]_vars


\* ------------------------------------------------------------ instantiation
\* What the compiler does with spsc_queue<int, N> for a template argument N:
\* the static_assert, then the selection of the slot array's storage.
TemplateArgs == (0 .. MaxSmallN) \cup {Pow2(k) : k \in 0 .. MaxLogN}

InitInstantiate ==
    /\ tN \in TemplateArgs
    /\ inst = "declared"
    /\ storage = "none"
    /\ items_ = << >>
    /\ readIndex_ = 0
    /\ writeIndexCache_ = 0
    /\ writeIndex_ = 0
    /\ readIndexCache_ = 0
    /\ item = DefaultT
    /\ last = NoCall
    /\ fifo = << >>
    /\ nPushed = 0
    /\ pushed = << >>
    /\ popped = << >>
    /\ fresh = << >>
    /\ prod = IdleProducer
    /\ cons = IdleConsumer
    /\ done = FALSE
    /\ pmode = "emplace"
    /\ cmode = "pop"
    /\ slotbuf = << >>
    /\ failed = FALSE

StaticAssert ==
    /\ inst = "declared"
    /\ inst' = IF static_assert_N(tN) THEN "accepted" ELSE "rejected"
    /\ UNCHANGED << tN, storage, qvars, item, pushed, popped, tvars, seqvars >>

SelectStorage ==
    /\ inst = "accepted"
    /\ storage = "none"
    /\ storage' = queue_storage(use_heap(tN))
    /\ UNCHANGED << tN, inst, qvars, item, pushed, popped, tvars, seqvars >>

NextInstantiate == StaticAssert \/ SelectStorage
SpecInstantiate == InitInstantiate /\ [][NextInstantiate]_vars

\* ----------------------------------------------------------------- claims
\* the values in the live slots, oldest first
Content(q) == [i \in 1 .. size(q) |-> q.items_[BitAnd(q.readIndex_ + i - 1, mask_)]]

Min(a, b) == IF a <= b THEN a ELSE b

IsPrefix(s, t) == Len(s) <= Len(t) /\ \A k \in 1 .. Len(s) : s[k] = t[k]

\* C1: in a run of emplace/push and pop(item) calls the k-th successful pop
\* returns the value of the k-th successful enqueue, an enqueue fails only on
\* N-1 queued elements and a pop only on none, and the live slots hold the
\* enqueued-and-not-dequeued values in order (at most N-1 of them).
C1_Fifo ==
    /\ IsPrefix(popped, pushed)
    /\ Len(pushed) - Len(popped) <= N - 1
    /\ Content(Q) = SubSeq(pushed, Len(popped) + 1, Len(pushed))
    /\ (last.op \in {"emplace", "push"} /\ ~last.ret) => Len(pushed) - Len(popped) = N - 1
    /\ (last.op = "pop" /\ ~last.ret) => Len(pushed) = Len(popped)
    /\ (last.op = "pop" /\ last.ret) => item = popped[Len(popped)]

C1_Witness ==
    /\ last.op = "pop" /\ last.ret
    /\ Len(pushed) > N
    /\ Len(popped) >= 3
    /\ writeIndex_ < readIndex_
    /\ popped[1] # popped[2]

\* C2: the consumer receives 0, 1, ..., Count-1 in this order, each once, and
\* ends having received exactly Count values.
C2_InOrderExactlyOnce ==
    /\ ~failed
    /\ IsPrefix(popped, [k \in 1 .. Count |-> k - 1])
    /\ cons.pc = "end" => (cons.expected = Count /\ Len(popped) = Count)

\* C3: a new queue is empty with size 0; with no successful dequeue yet, an
\* enqueue succeeds exactly while fewer than N-1 elements were enqueued, the
\* queue is full exactly after N-1 of them, and capacity() is that N-1.
C3_FreshCapacity ==
    /\ last.op = "none" => (empty(Q) /\ size(Q) = 0 /\ ~full(Q))
    /\ popped = << >> =>
          /\ size(Q) = Len(pushed)
          /\ Len(pushed) <= capacity
          /\ full(Q) <=> Len(pushed) = capacity
          /\ last.op \in {"emplace", "push"} => (last.ret <=> last.presize < N - 1)
    /\ capacity = N - 1

C3_Witness ==
    /\ popped = << >>
    /\ Len(pushed) = N - 1
    /\ full(Q)
    /\ last.op = "emplace" /\ ~last.ret /\ last.presize = N - 1

\* C4: between calls size() is the number of elements enqueued and not yet
\* dequeued.
C4_Size == size(Q) = Len(fifo)

C4_Witness ==
    /\ writeIndex_ < readIndex_
    /\ Len(fifo) = 2
    /\ last.op = "consume_one" /\ last.ret

\* C5: an enqueue on a full queue returns false and changes neither index,
\* no cache and no slot (so size(), full() and the queued values stay).
C5_FullNoChange ==
    [][ (last'.op \in {"emplace", "push"} /\ (full(Q) \/ ~last'.ret)) =>
            /\ full(Q) /\ ~last'.ret
            /\ UNCHANGED qvars
            /\ size(Q)' = size(Q) /\ full(Q)' /\ Content(Q)' = Content(Q) ]_vars

C5_Witness ==
    /\ last.op = "emplace" /\ ~last.ret
    /\ full(Q)
    /\ writeIndex_ < readIndex_

\* C6: pop(item), pop() and consume_one on an empty queue return false and
\* change neither index, no cache, no slot and not the caller's item; the
\* callback is not invoked.
C6_EmptyNoChange ==
    [][ (last'.op \in {"pop", "pop_discard", "consume_one"} /\ (empty(Q) \/ ~last'.ret)) =>
            /\ empty(Q) /\ ~last'.ret
            /\ UNCHANGED << qvars, item >>
            /\ last'.calls = << >> ]_vars

C6_Witness ==
    /\ last.op = "pop" /\ ~last.ret
    /\ item # DefaultT
    /\ items_[readIndex_] # item
    /\ readIndex_ # 0

\* C7: reset() zeroes both indices and both caches, and every call made after
\* it gives the results the same calls give on a newly constructed queue.
C7_ResetFresh ==
    /\ last.op = "reset" =>
          /\ readIndex_ = 0 /\ writeIndex_ = 0
          /\ readIndexCache_ = 0 /\ writeIndexCache_ = 0
          /\ empty(Q)
    /\ last.ret = last.fret
    /\ item = last.fitem
    /\ last.calls = last.fcalls
    /\ size(Q) = size(fresh) /\ empty(Q) = empty(fresh) /\ full(Q) = full(fresh)
    /\ Content(Q) = Content(fresh)

C7_Witness ==
    /\ items_ # fresh.items_
    /\ last.op = "pop" /\ last.ret
    /\ ~empty(Q)

\* C8: consume_one on an empty queue returns false without invoking the
\* callback; otherwise it invokes it once, with the oldest value, removes
\* that element and returns true.
C8_ConsumeOne ==
    [][ last'.op = "consume_one" =>
            IF empty(Q)
            THEN ~last'.ret /\ last'.calls = << >>
            ELSE /\ last'.ret
                 /\ last'.calls = << Head(fifo) >>
                 /\ last'.calls = << Content(Q)[1] >>
                 /\ size(Q)' = size(Q) - 1
                 /\ Content(Q)' = Tail(Content(Q)) ]_vars

C8_Witness ==
    /\ last.op = "consume_one" /\ last.ret
    /\ ~empty(Q)
    /\ last.calls[1] # Content(Q)[1]
    /\ readIndex_ = 0 /\ nPushed > N

\* C9: consume_all invokes the callback once per queued element, oldest
\* first, returns that number (the size before the call) and leaves the
\* queue empty.
C9_ConsumeAll ==
    [][ last'.op = "consume_all" =>
            /\ last'.ret = size(Q)
            /\ last'.ret = Len(last'.calls)
            /\ last'.calls = Content(Q)
            /\ last'.calls = fifo
            /\ empty(Q)' ]_vars

C9_Witness ==
    /\ last.op = "consume_all"
    /\ last.ret = N - 1
    /\ writeIndex_ < N - 1 /\ writeIndex_ > 0
    /\ \E i, j \in 1 .. Len(last.calls) : last.calls[i] # last.calls[j]

\* C10: consume_n(f, limit) invokes the callback on the oldest
\* min(limit, size()) elements in order and returns that number; the others
\* stay queued in order; limit 0 changes nothing.
C10_ConsumeN ==
    [][ last'.op = "consume_n" =>
            /\ last'.ret = Min(last'.arg, size(Q))
            /\ last'.ret <= last'.arg
            /\ last'.ret = Len(last'.calls)
            /\ last'.calls = SubSeq(Content(Q), 1, last'.ret)
            /\ last'.calls = SubSeq(fifo, 1, last'.ret)
            /\ Content(Q)' = SubSeq(Content(Q), last'.ret + 1, size(Q))
            /\ last'.arg = 0 => (last'.ret = 0 /\ UNCHANGED << qvars, item >>) ]_vars

C10_Witness ==
    /\ last.op = "consume_n"
    /\ last.arg = 2 /\ last.ret = 2
    /\ size(Q) = 1
    /\ writeIndex_ < readIndex_

\* C11: a force_push returns only after its write index moved up by exactly one
\* from a queue that was not full (the slot written held no element not yet
\* dequeued); a force_pop returns only after its read index moved up by exactly
\* one from a queue that was not empty, and the value it hands back is the
\* oldest one enqueued and not yet dequeued.
C11_BlockingSucceeds ==
    [][ /\ (pmode = "force_push" /\ prod.pc = "publish" /\ prod'.pc = "loop") =>
               /\ prod.writeIdx = writeIndex_
               /\ BitAnd(writeIndex_ + 1, mask_) # readIndex_
               /\ writeIndex_' = BitAnd(writeIndex_ + 1, mask_)
               /\ size(Q)' = size(Q) + 1
        /\ (cmode = "force_pop" /\ cons.pc = "advance" /\ cons'.pc = "check") =>
               /\ cons.readIdx = readIndex_
               /\ readIndex_ # writeIndex_
               /\ readIndex_' = BitAnd(readIndex_ + 1, mask_)
               /\ size(Q)' = size(Q) - 1
        /\ (cmode = "force_pop" /\ cons.pc = "check" /\ cons'.pc # "check") =>
               /\ cons.expected < Len(pushed)
               /\ item = pushed[cons.expected + 1]
      ]_vars

InForcePush == pmode = "force_push" /\ prod.pc \in {"refresh", "construct", "publish"}
InForcePop == cmode = "force_pop" /\ cons.pc \in {"refresh", "move", "advance"}

\* C12 as stated: with both threads scheduled fairly, for every accepted N a
\* force_push that has been entered returns and a force_pop that has been
\* entered returns.
C12_TerminatesEveryN ==
    /\ InForcePush ~> (prod.pc = "loop")
    /\ InForcePop ~> (cons.pc = "check")

\* C12, amended: the same for every accepted N >= 2.
C12_TerminatesFromTwo ==
    /\ (N >= 2 /\ InForcePush) ~> (prod.pc = "loop")
    /\ (N >= 2 /\ InForcePop) ~> (cons.pc = "check")

\* a force_push waiting on a full queue of N >= 2 slots while the consumer is
\* inside a dequeue
C12_Witness ==
    /\ N >= 2
    /\ InForcePush
    /\ prod.pc = "refresh"
    /\ prod.nextWriteIdx = readIndex_
    /\ size(Q) = N - 1
    /\ cons.pc = "move"

\* C13: front() on a non-empty queue yields the oldest element, the value the
\* next pop(item) hands back, and changes neither the queue nor the caller's
\* variable.
C13_Front ==
    [][ (last'.op = "front" /\ ~empty(Q)) =>
            /\ last'.ret
            /\ last'.calls = << fifo[1] >>
            /\ last'.calls = << pop(Q', item).item >>
            /\ UNCHANGED << qvars, item >>
      ]_vars

\* C14: in every state of a single-threaded run both indices lie in 0 .. N-1,
\* size() is at most N-1, empty() holds exactly when the indices are equal,
\* exactly when size() is 0 and exactly when nothing is queued, and full()
\* holds exactly when (writeIndex_ + 1) & mask_ is the read index, exactly
\* when size() is N-1 = capacity() and exactly when N-1 elements are queued.
C14_Indices ==
    /\ readIndex_ \in 0 .. N - 1
    /\ writeIndex_ \in 0 .. N - 1
    /\ size(Q) <= N - 1
    /\ empty(Q) <=> (writeIndex_ = readIndex_)
    /\ empty(Q) <=> (size(Q) = 0)
    /\ empty(Q) <=> (fifo = << >>)
    /\ full(Q) <=> (BitAnd(writeIndex_ + 1, mask_) = readIndex_)
    /\ full(Q) <=> (size(Q) = N - 1)
    /\ full(Q) <=> (Len(fifo) = capacity)
    /\ capacity = N - 1

\* a full queue whose write index has wrapped to 0 while the read index is 1
C14_Witness ==
    /\ full(Q)
    /\ size(Q) = N - 1
    /\ writeIndex_ = 0
    /\ readIndex_ = 1
    /\ last.op \in {"emplace", "push"}
    /\ last.ret

IsPowerOfTwo(n) == \E k \in 0 .. MaxLogN : n = Pow2(k)

\* C15: spsc_queue<T, N> is accepted by the compiler exactly when N is one of
\* 1, 2, 4, 8, ...; every other N is rejected.
C15_PowerOfTwoOnly ==
    inst # "declared" => (inst = "accepted" <=> IsPowerOfTwo(tN))

\* the positions inside one emplace/push call and inside one
\* pop/consume_one/empty call, in the order the call passes them
PRank(pc) == CASE pc = "refresh" -> 1 [] pc = "construct" -> 2 [] pc = "publish" -> 3
                  [] OTHER -> 0
CRank(pc) == CASE pc = "empty" -> 1 [] pc = "load" -> 2 [] pc = "refresh" -> 3
                  [] pc = "move" -> 4 [] pc = "callback" -> 5 [] pc = "advance" -> 6
                  [] OTHER -> 0
InEmplace == pmode = "emplace" /\ PRank(prod.pc) > 0
InPoll == cmode # "force_pop" /\ CRank(cons.pc) > 0

\* C16: whatever the other thread does or fails to do, a thread inside
\* emplace/push, pop, consume_one or empty can always take its next step, and
\* every step it can take moves it to a later position of the call or returns:
\* a call is over after at most 4 (enqueue) or 5 (dequeue) of its own steps.
C16_WaitFree ==
    /\ InEmplace =>
          /\ ENABLED Producer
          /\ ~ENABLED (Producer /\ PRank(prod'.pc) # 0 /\ PRank(prod'.pc) <= PRank(prod.pc))
    /\ InPoll =>
          /\ ENABLED Consumer
          /\ ~ENABLED (Consumer /\ CRank(cons'.pc) # 0 /\ CRank(cons'.pc) <= CRank(cons.pc))

\* emplace on a full queue, about to reload the read index and fail, while the
\* consumer has stopped in the middle of a pop
C16_Witness ==
    /\ InEmplace
    /\ prod.pc = "refresh"
    /\ prod.nextWriteIdx = readIndex_
    /\ N >= 2
    /\ InPoll
    /\ cons.pc = "advance"

\* the slots holding an element enqueued and not yet dequeued
LiveSlots == {BitAnd(readIndex_ + k, mask_) : k \in 0 .. size(Q) - 1}
Constructing == prod.pc \in {"construct", "publish"}
Reading == cons.pc \in {"move", "callback"}

\* C17: with construction, move-out, callback and index stores as separate
\* steps taken in program order: the write index moves only when its slot has
\* been constructed and the read index only when its slot has been moved out;
\* the slot the producer constructs holds no element not yet dequeued and is not
\* the slot the consumer is reading; the slot the consumer reads holds a
\* completely constructed, published element, the oldest one.
C17_SlotExclusion ==
    [][ /\ Constructing =>
               /\ prod.writeIdx \notin LiveSlots
               /\ ~(Reading /\ cons.readIdx = prod.writeIdx)
        /\ Reading =>
               /\ cons.readIdx \in LiveSlots
               /\ cons.readIdx = readIndex_
               /\ ~(Constructing /\ prod.writeIdx = cons.readIdx)
               /\ items_[cons.readIdx] = pushed[Len(popped) + 1]
        /\ writeIndex_' # writeIndex_ =>
               /\ prod.pc = "publish"
               /\ items_[prod.writeIdx] = prod.i
               /\ writeIndex_ = prod.writeIdx
        /\ readIndex_' # readIndex_ =>
               /\ cons.pc = "advance"
               /\ readIndex_ = cons.readIdx
               /\ item = items_[cons.readIdx]
      ]_vars

\* the producer constructs into the last slot it may use, with wrapped
\* indices, while the consumer is moving the oldest element out
C17_Witness ==
    /\ N >= 4
    /\ prod.pc = "construct"
    /\ cons.pc = "move"
    /\ BitAnd(prod.writeIdx + 2, mask_) = cons.readIdx
    /\ prod.writeIdx < cons.readIdx
    /\ size(Q) = N - 2

\* C18: pop(item), force_pop(item) and consume_one store the read index with
\* release order, after the move-out: the read index is never seen advanced
\* past a slot whose move-out has not been performed yet.
C18_ReleaseAfterMoveOut ==
    /\ cons.pc = "advance" => read_index_store(cmode) = "release"
    /\ cons.late => readIndex_ = cons.readIdx

\* the slots the consumer's last acquire load of the write index covers
ObservedSlots ==
    {BitAnd(readIndex_ + k, mask_) : k \in 0 .. ((writeIndexCache_ - readIndex_ + N) % N) - 1}

\* C19: once the consumer's acquire load has observed a write index, the
\* value constructed in every slot it publishes is visible to the consumer,
\* and the slot the consumer moves out holds the element enqueued there, not
\* an older content.
C19_PublishedVisible ==
    /\ \A k \in 1 .. Len(slotbuf) : slotbuf[k].idx \notin ObservedSlots
    /\ cons.pc = "move" => items_[cons.readIdx] = pushed[Len(popped) + 1]

\* C20: for every power of two N the slot array of spsc_queue<T, N> is on the
\* heap exactly when 2 * N * cacheLineSize exceeds STACK_BYTES = 524288, and
\* inline in the queue object otherwise.
C20_HeapIffLarge ==
    (IsPowerOfTwo(tN) /\ storage # "none") =>
        /\ storage = "heap" <=> (2 * tN * cacheLineSize > STACK_BYTES)
        /\ storage = "inline" <=> (2 * tN * cacheLineSize <= STACK_BYTES)

ProducerOps == {"emplace", "push", "force_emplace", "force_push"}
ConsumerOps == {"pop", "pop_discard", "force_pop", "force_pop_discard",
                "consume_one", "consume_all", "consume_n"}
QueryOps == {"query"}
WritesConsumerSide == readIndex_' # readIndex_ \/ writeIndexCache_' # writeIndexCache_
WritesProducerSide == writeIndex_' # writeIndex_ \/ readIndexCache_' # readIndexCache_

\* C21: an enqueue operation leaves readIndex_ and writeIndexCache_ alone, a
\* dequeue operation leaves writeIndex_ and readIndexCache_ alone, a query
\* changes nothing, and only reset() writes on both sides.
C21_SingleWriter ==
    [][ /\ last'.op \in ProducerOps => ~WritesConsumerSide
        /\ last'.op \in ConsumerOps => ~WritesProducerSide
        /\ last'.op \in QueryOps => UNCHANGED << qvars, item >>
        /\ (WritesConsumerSide /\ WritesProducerSide) => last'.op = "reset"
      ]_vars

\* a force_emplace that had to reload the read index into its cache, returned
\* with wrapped indices and left the consumer's stale cache as it was
C21_Witness ==
    /\ last.op = "force_emplace"
    /\ last.ret
    /\ writeIndex_ < readIndex_
    /\ readIndexCache_ = readIndex_
    /\ writeIndexCache_ # writeIndex_
    /\ writeIndexCache_ # readIndexCache_

\* (a - b) mod N
Dist(a, b) == (a - b + N) % N
Occupancy == Dist(writeIndex_, readIndex_)
ProducerView == Dist(writeIndex_, readIndexCache_)
ConsumerView == Dist(writeIndexCache_, readIndex_)

\* C22: in every state of a producer/consumer run the occupancy the producer
\* derives from readIndexCache_ is at least the true occupancy and the
\* availability the consumer derives from writeIndexCache_ is at most the true
\* occupancy; the slot the producer is about to construct holds no element not
\* yet dequeued and the slot the consumer is about to move out is published.
C22_ConservativeCaches ==
    /\ ProducerView >= Occupancy
    /\ ConsumerView <= Occupancy
    /\ prod.pc = "construct" =>
          /\ prod.writeIdx = writeIndex_
          /\ Occupancy < N - 1
          /\ prod.writeIdx \notin LiveSlots
    /\ cons.pc = "move" =>
          /\ cons.readIdx = readIndex_
          /\ Occupancy > 0
          /\ cons.readIdx \in LiveSlots

\* both caches are stale at once, with wrapped indices: the producer believes
\* the queue fuller and the consumer believes it emptier than it is
C22_Witness ==
    /\ writeIndex_ < readIndex_
    /\ ProducerView > Occupancy
    /\ ConsumerView < Occupancy
    /\ readIndexCache_ # 0
    /\ writeIndexCache_ # 0

\* the step with which an emplace returns false / a pop or consume_one
\* returns false
EmplaceFails ==
    /\ pmode = "emplace"
    /\ prod.pc \in {"refresh", "construct", "publish"}
    /\ prod'.pc = "loop"
    /\ prod'.i = prod.i
PollFails ==
    /\ cmode # "force_pop"
    /\ cons.pc \in {"load", "refresh", "move", "callback"}
    /\ cons'.pc = "loop"

\* C23: emplace returns false only from its acquire load of the read index,
\* and only if the queue holds N-1 elements at that load; pop and consume_one
\* return false only from their acquire load of the write index, and only if
\* the queue holds no published element at that load.
C23_NoSpuriousFailure ==
    [][ /\ EmplaceFails =>
               /\ prod.pc = "refresh"
               /\ prod.writeIdx = writeIndex_
               /\ Occupancy = N - 1
        /\ PollFails =>
               /\ cons.pc = "refresh"
               /\ cons.readIdx = readIndex_
               /\ Occupancy = 0
      ]_vars

\* both threads are at their acquire load with caches that are stale and, taken
\* alone, say "full" to the producer and "empty" to the consumer, while the
\* queue is neither
C23_Witness ==
    /\ pmode = "emplace"
    /\ prod.pc = "refresh"
    /\ prod.nextWriteIdx = readIndexCache_
    /\ cmode # "force_pop"
    /\ cons.pc = "refresh"
    /\ cons.readIdx = writeIndexCache_
    /\ Occupancy > 0
    /\ Occupancy < N - 1
====
